---- MODULE Spec2Model ----
(***************************************************************************)
(* AncestorTree: the family-tree layout and visibility engine              *)
(* (frontend/src/components/tree/family-tree.tsx, buildTreeLayout) and the  *)
(* FamilyTree component state that feeds it.                                *)
(*                                                                          *)
(* Person and family ids are opaque strings in the program; only equality   *)
(* and Map/Set membership are ever used on them, so they are modelled as    *)
(* positive integers.  NoId (0) stands for null / undefined ids.            *)
(* A generation of 0 stands for every falsy generation value (null,         *)
(* undefined, 0, NaN): `p.generation || 1` treats them all alike.           *)
(***************************************************************************)
EXTENDS Integers, Sequences, FiniteSets, TLC

VARIABLES data, isLoading, collapsedNodes, viewMode, selectedPerson, layout,
          profiles, confirmDialog, updateRole

vars == <<data, isLoading, collapsedNodes, viewMode, selectedPerson, layout,
          profiles, confirmDialog, updateRole>>

\* The state of the family tree component and of the admin users page.
treeVars == <<data, isLoading, collapsedNodes, viewMode, selectedPerson, layout>>

adminVars == <<profiles, confirmDialog, updateRole>>

\* ------------------------------------------------------------------------
\* Program constants (family-tree.tsx:47-50)
\* ------------------------------------------------------------------------
NODE_WIDTH == 120
NODE_HEIGHT == 80
LEVEL_HEIGHT == 140
SIBLING_GAP == 20

\* ------------------------------------------------------------------------
\* Bounds of the model
\* ------------------------------------------------------------------------
MaxPeople == 3
MaxFamilies == 2
MaxChildren == 2
MaxPlainFamilies == 1
MaxPlainChildren == 1
MaxPlainCollapsed == 1
MaxUsers == 2

NoId == 0

\* Ids that relationship records, the collapse set and the focus may carry.
\* data.people holds the ids 1..n for some n <= MaxPeople, so with n < MaxPeople
\* the remaining ids are ids of no known person.
PersonRef == 1..MaxPeople
FamilyRef == 1..MaxFamilies

\* Generation values: 0 = missing (null, undefined or 0, all falsy); -1 = a
\* negative number, which is truthy.
GenValues == {-1, 0, 1, 2}

\* type UserRole, as offered by the role Select of a table row.
UserRole == {"admin", "editor", "viewer"}

UserRef == 1..MaxUsers

\* confirmDialog = null.
NoDialog == [open |-> FALSE]

\* updateRole with no request in flight (isPending = false).
NoUpdate == [isPending |-> FALSE]

ViewModes == {"all", "ancestors", "descendants"}

\* ------------------------------------------------------------------------
\* Sequence helpers
\* ------------------------------------------------------------------------
Range(s) == {s[i] : i \in DOMAIN s}

\* What a forEach that pushes into one array builds: the concatenation of the
\* sequences ss[1], ..., ss[Len(ss)], in order.
Concat(ss) ==
  LET f[i \in {0} \cup DOMAIN ss] == IF i = 0 THEN <<>> ELSE f[i - 1] \o ss[i]
  IN f[Cardinality(DOMAIN ss)]

\* [...keys].sort((a, b) => a - b): the elements of a finite set of integers
\* in ascending order.
RECURSIVE SortAsc(_)
SortAsc(S) ==
  IF S = {} THEN <<>>
  ELSE LET m == CHOOSE x \in S : \A y \in S : x <= y
       IN <<m>> \o SortAsc(S \ {m})

Min(a, b) == IF a <= b THEN a ELSE b
Max(a, b) == IF a >= b THEN a ELSE b

\* ------------------------------------------------------------------------
\* Relationship index (buildTreeLayout, lines 269-284)
\* ------------------------------------------------------------------------

\* Mutant of familyChildren: only the first link of the family is kept.
familyChildren_FirstOnly(d, family) ==
  LET all == SelectSeq(d.children, LAMBDA c : c.family_id = family.id)
  IN IF Len(all) = 0 THEN <<>> ELSE <<all[1]>>

\* children.filter((c) => c.family_id === family.id)
familyChildren(d, family) ==
  SelectSeq(d.children, LAMBDA c : c.family_id = family.id)

\* [family.father_id, family.mother_id].filter(Boolean)
parentIds(family) ==
  SelectSeq(<<family.father_id, family.mother_id>>, LAMBDA x : x # NoId)

\* The (child, parentIds) pairs in the order the nested forEach visits them.
IndexVisits(d) ==
  Concat([fi \in DOMAIN d.families |->
            LET family == d.families[fi]
                fc == familyChildren(d, family)
            IN [ci \in DOMAIN fc |-> [child |-> fc[ci].person_id,
                                      parents |-> parentIds(family)]]])

\* childToParents.set(child.person_id, parentIds): the last visit of a child wins.
\* A function whose domain is the set of keys of the Map.
childToParents(d) ==
  LET v == IndexVisits(d)
      m[i \in 0..Len(v)] ==
        IF i = 0 THEN <<>>
        ELSE (v[i].child :> v[i].parents) @@ m[i - 1]
  IN m[Len(v)]

\* parentToChildren.get(parentId).push(child.person_id): every visit appends the
\* child once for each occurrence of the parent in parentIds.  The result is a
\* function on PersonRef; an id with no entry in the Map maps to <<>>, which is
\* what every reader of the Map substitutes (`|| []`).
parentToChildren(d) ==
  LET v == IndexVisits(d)
  IN [p \in PersonRef |->
        Concat([i \in DOMAIN v |->
                  Concat([j \in DOMAIN v[i].parents |->
                            IF v[i].parents[j] = p THEN <<v[i].child>> ELSE <<>>])])]

MapGet(m, k) == IF k \in DOMAIN m THEN m[k] ELSE <<>>

PeopleIds(d) == {d.people[i].id : i \in DOMAIN d.people}

\* ------------------------------------------------------------------------
\* Visibility (getVisiblePeopleIds, lines 287-327)
\* ------------------------------------------------------------------------

\* hideDescendants, addAncestors and addDescendants are plain recursive
\* closures with no visited set.  Their control flow depends on the id they
\* are called with only, so a chain of nested calls that is longer than the
\* number of distinct ids repeats an id and never ends: the engine's finite
\* call stack overflows and a RangeError propagates out of buildTreeLayout.
\* A traversal result is [threw, visible]; threw = TRUE is that RangeError.
CallStackLimit == Cardinality(PersonRef)

Returned(visible) == [threw |-> FALSE, visible |-> visible]
Thrown(visible) == [threw |-> TRUE, visible |-> visible]

\* Mutant of hideDescendants: the children are deleted, their own descendants
\* are not (the recursive call is missing).
hideDescendants_ChildrenOnly(p2c, personId, visible, depth) ==
  Returned(visible \ Range(p2c[personId]))

\* childIds.forEach((childId) => { visible.delete(childId); hideDescendants(childId) })
RECURSIVE hideDescendants(_, _, _, _)
hideDescendants(p2c, personId, visible, depth) ==
  IF depth > CallStackLimit THEN Thrown(visible)
  ELSE LET childIds == p2c[personId]
           f[i \in 0..Len(childIds)] ==
             IF i = 0 THEN Returned(visible)
             ELSE IF f[i - 1].threw THEN f[i - 1]
             ELSE hideDescendants(p2c, childIds[i],
                                  f[i - 1].visible \ {childIds[i]}, depth + 1)
       IN f[Len(childIds)]

\* visible.add(personId); parentIds.forEach(addAncestors)
RECURSIVE addAncestors(_, _, _, _)
addAncestors(c2p, personId, visible, depth) ==
  IF depth > CallStackLimit THEN Thrown(visible)
  ELSE LET ps == MapGet(c2p, personId)
           f[i \in 0..Len(ps)] ==
             IF i = 0 THEN Returned(visible \cup {personId})
             ELSE IF f[i - 1].threw THEN f[i - 1]
             ELSE addAncestors(c2p, ps[i], f[i - 1].visible, depth + 1)
       IN f[Len(ps)]

\* visible.add(personId); childIds.forEach(addDescendants)
RECURSIVE addDescendants(_, _, _, _)
addDescendants(p2c, personId, visible, depth) ==
  IF depth > CallStackLimit THEN Thrown(visible)
  ELSE LET childIds == p2c[personId]
           f[i \in 0..Len(childIds)] ==
             IF i = 0 THEN Returned(visible \cup {personId})
             ELSE IF f[i - 1].threw THEN f[i - 1]
             ELSE addDescendants(p2c, childIds[i], f[i - 1].visible, depth + 1)
       IN f[Len(childIds)]

\* Mutant of hideCollapsed: only the first collapsed node is processed.
hideCollapsed_FirstOnly(p2c, collapsed, everyone) ==
  IF collapsed = {} THEN Returned(everyone)
  ELSE hideDescendants(p2c, SortAsc(collapsed)[1], everyone, 1)

\* Mutant of hideCollapsedInOrder: only the node visited last hides its
\* descendants.
hideCollapsedInOrder_LastOnly(p2c, order, everyone) ==
  IF Len(order) = 0 THEN Returned(everyone)
  ELSE hideDescendants(p2c, order[Len(order)], everyone, 1)

\* collapsedNodes.forEach((nodeId) => hideDescendants(nodeId)), the Set being
\* visited in the order `order` (a JavaScript Set iterates in insertion order).
hideCollapsedInOrder(p2c, order, everyone) ==
  LET f[i \in 0..Len(order)] ==
        IF i = 0 THEN Returned(everyone)
        ELSE IF f[i - 1].threw THEN f[i - 1]
        ELSE hideDescendants(p2c, order[i], f[i - 1].visible, 1)
  IN f[Len(order)]

\* collapsedNodes.forEach((nodeId) => hideDescendants(nodeId)).  The Set is
\* visited in insertion order, which the result does not depend on (deletions
\* commute, and one overflowing call throws whatever ran before it); the model
\* visits it in ascending order.
hideCollapsed(p2c, collapsed, everyone) ==
  hideCollapsedInOrder(p2c, SortAsc(collapsed), everyone)

\* Mutant of getVisiblePeopleIds: the focused views hide the descendants of
\* collapsed nodes too.
getVisiblePeopleIds_CollapseInFocusedViews(d, collapsed, mode, focusPersonId) ==
  LET base ==
        IF mode = "all" THEN Returned(PeopleIds(d))
        ELSE IF mode = "ancestors" /\ focusPersonId # NoId
          THEN addAncestors(childToParents(d), focusPersonId, {}, 1)
        ELSE IF mode = "descendants" /\ focusPersonId # NoId
          THEN addDescendants(parentToChildren(d), focusPersonId, {}, 1)
        ELSE Returned(PeopleIds(d))
  IN IF base.threw THEN base
     ELSE hideCollapsed(parentToChildren(d), collapsed, base.visible)

getVisiblePeopleIds(d, collapsed, mode, focusPersonId) ==
  IF mode = "all"
    THEN hideCollapsed(parentToChildren(d), collapsed, PeopleIds(d))
  ELSE IF mode = "ancestors" /\ focusPersonId # NoId
    THEN addAncestors(childToParents(d), focusPersonId, {}, 1)
  ELSE IF mode = "descendants" /\ focusPersonId # NoId
    THEN addDescendants(parentToChildren(d), focusPersonId, {}, 1)
  ELSE Returned(PeopleIds(d))

\* ------------------------------------------------------------------------
\* Layout by generation (lines 329-367)
\* ------------------------------------------------------------------------

\* const gen = p.generation || 1
genOf(p) == IF p.generation = 0 THEN 1 ELSE p.generation

\* Mutant of visiblePeople: one entry per visible id, whether or not it is the
\* id of a person of data.people.
visiblePeople_PerVisibleId(d, visibleIds) ==
  LET ids == SortAsc(visibleIds)
  IN [i \in 1..Len(ids) |-> [id |-> ids[i], generation |-> 1]]

\* people.filter((p) => visibleIds.has(p.id))
visiblePeople(d, visibleIds) ==
  SelectSeq(d.people, LAMBDA p : p.id \in visibleIds)

\* byGeneration: Map<number, Person[]>, each row in data.people order.
byGeneration(vp) ==
  [g \in {genOf(vp[i]) : i \in DOMAIN vp} |->
     SelectSeq(vp, LAMBDA p : genOf(p) = g)]

\* (parentToChildren.get(person.id) || []).some((cid) => people.some((p) => p.id === cid))
hasChildren(d, p2c, personId) ==
  \E i \in DOMAIN p2c[personId] : p2c[personId][i] \in PeopleIds(d)

\* Mutant of nodeX: the step between two nodes of a row leaves out SIBLING_GAP.
nodeX_NoGap(n, i) ==
  LET totalWidth == n * (NODE_WIDTH + SIBLING_GAP) - SIBLING_GAP
      startX == -(totalWidth \div 2)
  IN startX + i * NODE_WIDTH

\* x = startX + i * (NODE_WIDTH + SIBLING_GAP), startX = -totalWidth / 2,
\* totalWidth = n * (NODE_WIDTH + SIBLING_GAP) - SIBLING_GAP (always even);
\* i counts from 0.
nodeX(n, i) ==
  LET totalWidth == n * (NODE_WIDTH + SIBLING_GAP) - SIBLING_GAP
      startX == -(totalWidth \div 2)
  IN startX + i * (NODE_WIDTH + SIBLING_GAP)

\* Mutant of rowY: the top margin of 20 is left out.
rowY_NoMargin(genIndex) == genIndex * LEVEL_HEIGHT

\* y = genIndex * LEVEL_HEIGHT + 20; genIndex counts from 0.
rowY(genIndex) == genIndex * LEVEL_HEIGHT + 20

\* generations.forEach((gen, genIndex) => genPeople.forEach((person, i) => nodes.push(..)))
layoutNodes(d, p2c, collapsed, visibleIds) ==
  LET byGen == byGeneration(visiblePeople(d, visibleIds))
      generations == SortAsc(DOMAIN byGen)
      row(k) ==
        LET genPeople == byGen[generations[k]]
        IN [i \in 1..Len(genPeople) |->
              [person |-> genPeople[i],
               x |-> nodeX(Len(genPeople), i - 1),
               y |-> rowY(k - 1),
               isCollapsed |-> genPeople[i].id \in collapsed,
               hasChildren |-> hasChildren(d, p2c, genPeople[i].id),
               isVisible |-> TRUE]]
  IN Concat([k \in 1..Len(generations) |-> row(k)])

\* ------------------------------------------------------------------------
\* Connections (lines 369-420)
\* ------------------------------------------------------------------------

\* personPositions = new Map(nodes.map((n) => [n.person.id, {x, y}]))
HasPos(nodes, id) == \E i \in DOMAIN nodes : nodes[i].person.id = id
\* Mutant of PosOf: every lookup answers with the position of the first node.
PosOf_FirstNode(nodes, id) == [x |-> nodes[1].x, y |-> nodes[1].y]

PosOf(nodes, id) ==
  LET i == CHOOSE j \in DOMAIN nodes : nodes[j].person.id = id
  IN [x |-> nodes[i].x, y |-> nodes[i].y]

\* Mutant of parentX: with both parents placed the anchor is the father's
\* centre, not the midpoint.
parentX_FatherOnly(hasFather, hasMother, fatherPos, motherPos) ==
  IF hasFather
    THEN fatherPos.x + NODE_WIDTH \div 2
    ELSE motherPos.x + NODE_WIDTH \div 2

\* parentX = fatherPos ? (motherPos ? (fatherPos.x + motherPos.x) / 2
\*                                     + NODE_WIDTH / 2
\*                                   : fatherPos.x + NODE_WIDTH / 2)
\*                     : (motherPos ? motherPos.x + NODE_WIDTH / 2 : null).
\* Every x is a multiple of 10, so the halved sum is an integer.  The null
\* case is hasParent = FALSE in familyConnections.
parentX(hasFather, hasMother, fatherPos, motherPos) ==
  IF hasFather
    THEN IF hasMother
           THEN (fatherPos.x + motherPos.x) \div 2 + NODE_WIDTH \div 2
           ELSE fatherPos.x + NODE_WIDTH \div 2
    ELSE motherPos.x + NODE_WIDTH \div 2

familyConnections(d, nodes, collapsed, family) ==
  LET hasFather == family.father_id # NoId /\ HasPos(nodes, family.father_id)
      hasMother == family.mother_id # NoId /\ HasPos(nodes, family.mother_id)
      fatherPos == PosOf(nodes, family.father_id)
      motherPos == PosOf(nodes, family.mother_id)
      couple ==
        IF hasFather /\ hasMother
          THEN << [id |-> <<"couple", family.id, NoId>>,
                   x1 |-> fatherPos.x + NODE_WIDTH \div 2,
                   y1 |-> fatherPos.y + NODE_HEIGHT \div 2,
                   x2 |-> motherPos.x + NODE_WIDTH \div 2,
                   y2 |-> motherPos.y + NODE_HEIGHT \div 2,
                   type |-> "couple",
                   isVisible |-> TRUE] >>
          ELSE <<>>
      \* parentX is null, parentY undefined, exactly when neither is placed
      hasParent == hasFather \/ hasMother
      parentY == IF hasFather THEN fatherPos.y ELSE motherPos.y
      \* parentId = family.father_id || family.mother_id
      parentId ==
        IF family.father_id # NoId THEN family.father_id ELSE family.mother_id
      isParentCollapsed == parentId # NoId /\ parentId \in collapsed
      childConn(c) ==
        IF HasPos(nodes, c.person_id)
          THEN << [id |-> <<"child", family.id, c.person_id>>,
                   x1 |-> parentX(hasFather, hasMother, fatherPos, motherPos),
                   y1 |-> parentY + NODE_HEIGHT,
                   x2 |-> PosOf(nodes, c.person_id).x + NODE_WIDTH \div 2,
                   y2 |-> PosOf(nodes, c.person_id).y,
                   type |-> "parent-child",
                   isVisible |-> TRUE] >>
          ELSE <<>>
  IN couple \o
     (IF hasParent /\ ~isParentCollapsed
        THEN LET fc == familyChildren(d, family)
             IN Concat([i \in DOMAIN fc |-> childConn(fc[i])])
        ELSE <<>>)

\* Mutant of layoutConnections: the couple connection of a union with a
\* collapsed spouse is left out.
layoutConnections_NoCoupleOfCollapsed(d, nodes, collapsed) ==
  SelectSeq(Concat([i \in DOMAIN d.families |->
                      familyConnections(d, nodes, collapsed, d.families[i])]),
            LAMBDA c :
              ~(/\ c.type = "couple"
                /\ \E i \in DOMAIN d.families :
                     /\ d.families[i].id = c.id[2]
                     /\ {d.families[i].father_id, d.families[i].mother_id}
                          \cap collapsed # {}))

layoutConnections(d, nodes, collapsed) ==
  Concat([i \in DOMAIN d.families |->
            familyConnections(d, nodes, collapsed, d.families[i])])

\* ------------------------------------------------------------------------
\* Bounds (lines 422-438) and the whole of buildTreeLayout (lines 261-439)
\* ------------------------------------------------------------------------
\* Mutant of layoutBounds: minX is never lowered below its seed 0.
layoutBounds_MinXStaysZero(nodes) ==
  LET f[i \in 0..Len(nodes)] ==
        IF i = 0 THEN [minX |-> 0, maxX |-> 0, maxY |-> 0]
        ELSE [minX |-> 0,
              maxX |-> Max(f[i - 1].maxX, nodes[i].x + NODE_WIDTH),
              maxY |-> Max(f[i - 1].maxY, nodes[i].y + NODE_HEIGHT)]
  IN f[Len(nodes)]

layoutBounds(nodes) ==
  LET f[i \in 0..Len(nodes)] ==
        IF i = 0 THEN [minX |-> 0, maxX |-> 0, maxY |-> 0]
        ELSE [minX |-> Min(f[i - 1].minX, nodes[i].x),
              maxX |-> Max(f[i - 1].maxX, nodes[i].x + NODE_WIDTH),
              maxY |-> Max(f[i - 1].maxY, nodes[i].y + NODE_HEIGHT)]
  IN f[Len(nodes)]

\* The value of a call that ended in the RangeError of a call stack overflow.
RangeError == [kind |-> "RangeError"]

\* Lines 329-438: what buildTreeLayout does once getVisiblePeopleIds has
\* returned (or thrown) vis.
layoutOfVisible(d, collapsed, vis) ==
  IF vis.threw THEN RangeError
  ELSE LET nodes == layoutNodes(d, parentToChildren(d), collapsed, vis.visible)
           b == layoutBounds(nodes)
       IN [kind |-> "layout",
           nodes |-> nodes,
           connections |-> layoutConnections(d, nodes, collapsed),
           width |-> b.maxX - b.minX + 100,
           height |-> b.maxY + 50,
           offsetX |-> -b.minX + 50]

buildTreeLayout(d, collapsed, mode, focusPersonId) ==
  layoutOfVisible(d, collapsed,
                  getVisiblePeopleIds(d, collapsed, mode, focusPersonId))

\* ------------------------------------------------------------------------
\* TreeConnection (lines 158-192): what is drawn for one connection, as the
\* sequence of its straight segments.
\* ------------------------------------------------------------------------
Segment(ax, ay, bx, by) == [x1 |-> ax, y1 |-> ay, x2 |-> bx, y2 |-> by]

\* Mutant of TreeConnection: every connection is one straight line.
TreeConnection_Straight(connection) ==
  << Segment(connection.x1, connection.y1, connection.x2, connection.y2) >>

\* 'couple': <line x1 y1 x2 y2>.  'parent-child': the path
\* M x1 y1 L x1 midY L x2 midY L x2 y2, midY = y1 + (y2 - y1) / 2.
\* y2 - y1 is a multiple of LEVEL_HEIGHT minus NODE_HEIGHT, an even number,
\* so the division is exact.
TreeConnection(connection) ==
  IF connection.type = "couple"
    THEN << Segment(connection.x1, connection.y1, connection.x2, connection.y2) >>
    ELSE LET midY == connection.y1 + (connection.y2 - connection.y1) \div 2
         IN << Segment(connection.x1, connection.y1, connection.x1, midY),
               Segment(connection.x1, midY, connection.x2, midY),
               Segment(connection.x2, midY, connection.x2, connection.y2) >>

\* ------------------------------------------------------------------------
\* Input data (TreeData: people, families, children)
\* ------------------------------------------------------------------------
\* data.people: the people 1..n in this order, n <= MaxPeople, with their
\* generations drawn from gens.
PersonSeqs(counts, gens) ==
  UNION {{[i \in 1..n |-> [id |-> i, generation |-> g[i]]] :
            g \in [1..n -> gens]} : n \in counts}

\* data.families: up to maxFamilies families 1..m; the father is null or any
\* id, known or not, the mother is drawn from mothers.
FamilySeqs(maxFamilies, mothers) ==
  UNION {{[i \in 1..m |-> [id |-> i, father_id |-> f[i][1], mother_id |-> f[i][2]]] :
            f \in [1..m -> (PersonRef \cup {NoId}) \X mothers]} :
         m \in 0..maxFamilies}

\* data.children: up to maxChildren links between any family id and any
\* person id, known or not, duplicates included.
ChildSeqs(maxChildren) ==
  UNION {[1..k -> [family_id : FamilyRef, person_id : PersonRef]] :
         k \in 0..maxChildren}

\* buildTreeLayout reads data.children through
\* children.filter((c) => c.family_id === family.id) only, which keeps the
\* order of the links of one family and never compares links of two families:
\* listing the links family by family loses no behaviour.
GroupedByFamily(links) ==
  \A i \in 1..(Len(links) - 1) : links[i].family_id <= links[i + 1].family_id

\* Relationship-rich data: MaxFamilies families and MaxChildren links over the
\* ids 1..MaxPeople, of which all or all but one are known people, everyone in
\* generation 1.
RichData ==
  [people : PersonSeqs({MaxPeople - 1, MaxPeople}, {1}),
   families : FamilySeqs(MaxFamilies, PersonRef \cup {NoId}),
   children : {c \in ChildSeqs(MaxChildren) : GroupedByFamily(c)}]

\* Generation-rich data: any number of people up to MaxPeople, each in any
\* generation of GenValues, with up to MaxPlainFamilies families and
\* MaxPlainChildren links.
PlainData ==
  [people : PersonSeqs(0..MaxPeople, GenValues),
   families : FamilySeqs(MaxPlainFamilies, PersonRef \cup {NoId}),
   children : ChildSeqs(MaxPlainChildren)]

\* The data the component is loaded with: the relationship-rich data with
\* single-parent families, over any number of known people.
LoadedData ==
  [people : PersonSeqs(0..MaxPeople, {1}),
   families : FamilySeqs(MaxFamilies, {NoId}),
   children : {c \in ChildSeqs(MaxChildren) : GroupedByFamily(c)}]

\* `data` before useTreeData has delivered anything (undefined).
NoData == [people |-> <<>>, families |-> <<>>, children |-> <<>>]

\* ------------------------------------------------------------------------
\* FamilyTree component (lines 445-556)
\* ------------------------------------------------------------------------

\* layout === null
NullLayout == [kind |-> "null"]

\* useMemo(() => { if (!data || data.people.length === 0) return null;
\*                 return buildTreeLayout(data, collapsedNodes, viewMode,
\*                                        selectedPerson?.id || null) })
layoutMemo(d, collapsed, mode, selected) ==
  IF Len(d.people) = 0 THEN NullLayout
  ELSE buildTreeLayout(d, collapsed, mode, selected)

\* Mutant of toggled: the id is added and never deleted.
toggled_AddOnly(prev, personId) == prev \cup {personId}

\* The updater of handleToggleCollapse: a copy of prev with personId flipped.
toggled(prev, personId) ==
  IF personId \in prev THEN prev \ {personId} ELSE prev \cup {personId}

\* The tree (nodes, view-mode select, selected-person card) is on screen:
\* not the loading skeleton, not the empty state, and the last render did
\* not throw.
\* The admin users page is not mounted while the tree is on screen.
UsersPageNotMounted ==
  /\ profiles = <<>>
  /\ confirmDialog = NoDialog
  /\ updateRole = NoUpdate

TreeShown ==
  /\ ~isLoading
  /\ layout.kind = "layout"
  /\ Len(layout.nodes) > 0

Init ==
  /\ isLoading = TRUE
  /\ data = NoData
  /\ collapsedNodes = {}
  /\ viewMode = "all"
  /\ selectedPerson = NoId
  /\ layout = NullLayout
  /\ UsersPageNotMounted

\* useTreeData delivers the tree data; the component renders with it.
DataLoaded ==
  /\ isLoading
  /\ \E d \in LoadedData :
       /\ data' = d
       /\ layout' = layoutMemo(d, collapsedNodes, viewMode, selectedPerson)
  /\ isLoading' = FALSE
  /\ UNCHANGED <<collapsedNodes, viewMode, selectedPerson>>
  /\ UNCHANGED adminVars

\* The collapse button of a placed node that has children.
handleToggleCollapse(personId) ==
  /\ TreeShown
  /\ \E i \in DOMAIN layout.nodes :
       layout.nodes[i].person.id = personId /\ layout.nodes[i].hasChildren
  /\ collapsedNodes' = toggled(collapsedNodes, personId)
  /\ layout' = layoutMemo(data, collapsedNodes', viewMode, selectedPerson)
  /\ UNCHANGED <<data, isLoading, viewMode, selectedPerson>>
  /\ UNCHANGED adminVars

\* onSelect={setSelectedPerson}: a click on a placed node.
onSelect(personId) ==
  /\ TreeShown
  /\ HasPos(layout.nodes, personId)
  /\ selectedPerson' = personId
  /\ layout' = layoutMemo(data, collapsedNodes, viewMode, personId)
  /\ UNCHANGED <<data, isLoading, collapsedNodes, viewMode>>
  /\ UNCHANGED adminVars

\* Mutant of handleViewModeChange: the view changes, nobody is selected.
handleViewModeChange_NoAutoSelect(mode) ==
  /\ TreeShown
  /\ viewMode' = mode
  /\ layout' = layoutMemo(data, collapsedNodes, mode, selectedPerson)
  /\ UNCHANGED <<data, isLoading, collapsedNodes, selectedPerson>>
  /\ UNCHANGED adminVars

\* The view-mode Select: onValueChange={(v) => handleViewModeChange(v)}.
handleViewModeChange(mode) ==
  /\ TreeShown
  /\ viewMode' = mode
  /\ selectedPerson' =
       IF mode # "all" /\ selectedPerson = NoId /\ Len(data.people) > 0
         THEN data.people[1].id
         ELSE selectedPerson
  /\ layout' = layoutMemo(data, collapsedNodes, viewMode', selectedPerson')
  /\ UNCHANGED <<data, isLoading, collapsedNodes>>
  /\ UNCHANGED adminVars

\* The "Xem tat ca" button of the view-mode badge: setViewMode('all').
showAll ==
  /\ TreeShown
  /\ viewMode # "all"
  /\ selectedPerson # NoId
  /\ viewMode' = "all"
  /\ layout' = layoutMemo(data, collapsedNodes, "all", selectedPerson)
  /\ UNCHANGED <<data, isLoading, collapsedNodes, selectedPerson>>
  /\ UNCHANGED adminVars

Next ==
  \/ DataLoaded
  \/ \E p \in PersonRef : handleToggleCollapse(p)
  \/ \E p \in PersonRef : onSelect(p)
  \/ \E m \in ViewModes : handleViewModeChange(m)
  \/ showAll

Spec == Init /\ [][Next]_vars

\* ------------------------------------------------------------------------
\* buildTreeLayout as a pure function: every input within the bounds, the
\* function applied once.
\* ------------------------------------------------------------------------
NotCalled == [kind |-> "not called"]

\* Relationship-rich inputs: view 'all' under every collapse set, and the
\* focused views on every focus id.
InitRich ==
  /\ isLoading = FALSE
  /\ data \in RichData
  /\ \/ /\ viewMode = "all"
        /\ selectedPerson = NoId
        /\ collapsedNodes \in SUBSET PersonRef
     \/ /\ viewMode \in {"ancestors", "descendants"}
        /\ selectedPerson \in PersonRef
        /\ collapsedNodes = {}
  /\ layout = NotCalled
  /\ UsersPageNotMounted

\* Generation-rich inputs: every view mode, every focus (null, known, unknown),
\* collapse sets of up to MaxPlainCollapsed ids.
InitPlain ==
  /\ isLoading = FALSE
  /\ data \in PlainData
  /\ viewMode \in ViewModes
  /\ selectedPerson \in PersonRef \cup {NoId}
  /\ collapsedNodes \in {c \in SUBSET PersonRef : Cardinality(c) <= MaxPlainCollapsed}
  /\ layout = NotCalled
  /\ UsersPageNotMounted

InitBuild == InitRich \/ InitPlain

CallBuildTreeLayout ==
  /\ layout = NotCalled
  /\ layout' = buildTreeLayout(data, collapsedNodes, viewMode, selectedPerson)
  /\ UNCHANGED <<data, isLoading, collapsedNodes, viewMode, selectedPerson>>
  /\ UNCHANGED adminVars

NextBuild == CallBuildTreeLayout

SpecBuild == InitBuild /\ [][NextBuild]_vars

SpecRich == InitRich /\ [][NextBuild]_vars

SpecPlain == InitPlain /\ [][NextBuild]_vars

\* ------------------------------------------------------------------------
\* The admin users page (UsersPage): the role Select of each table row, the
\* confirmation dialog and the role update in flight
\* ------------------------------------------------------------------------

\* The page with the profiles loaded, no dialog open and no update in flight;
\* the tree component is not mounted.
InitAdmin ==
  /\ isLoading = TRUE
  /\ data = NoData
  /\ collapsedNodes = {}
  /\ viewMode = "all"
  /\ selectedPerson = NoId
  /\ layout = NullLayout
  /\ profiles \in [UserRef -> UserRole]
  /\ confirmDialog = NoDialog
  /\ updateRole = NoUpdate

\* The role Select of the row of userId; the table is reachable only while no
\* dialog is open (the alert dialog is modal).
handleRoleChange(userId, newRole) ==
  /\ confirmDialog = NoDialog
  /\ LET currentRole == profiles[userId]
     IN confirmDialog' =
          IF newRole = currentRole THEN confirmDialog
          ELSE [open |-> TRUE, userId |-> userId,
                currentRole |-> currentRole, newRole |-> newRole]
  /\ UNCHANGED <<profiles, updateRole>>
  /\ UNCHANGED treeVars

\* The dialog's action button, disabled while an update is pending:
\* confirmRoleChange up to its await of updateRole.mutateAsync.
confirmRoleChange ==
  /\ confirmDialog # NoDialog
  /\ ~updateRole.isPending
  /\ updateRole' = [isPending |-> TRUE, userId |-> confirmDialog.userId,
                    role |-> confirmDialog.newRole]
  /\ UNCHANGED <<profiles, confirmDialog>>
  /\ UNCHANGED treeVars

\* onOpenChange of the dialog (its cancel button, the Escape key):
\* (open) => !open && setConfirmDialog(null).
onOpenChange(open) ==
  /\ confirmDialog # NoDialog
  /\ confirmDialog' = IF open THEN confirmDialog ELSE NoDialog
  /\ UNCHANGED <<profiles, updateRole>>
  /\ UNCHANGED treeVars

\* The awaited update settles and confirmRoleChange resumes: the role is
\* stored when the update succeeded, and finally setConfirmDialog(null).
confirmRoleChangeResumes(succeeded) ==
  /\ updateRole.isPending
  /\ profiles' = IF succeeded
                   THEN [profiles EXCEPT ![updateRole.userId] = updateRole.role]
                   ELSE profiles
  /\ updateRole' = NoUpdate
  /\ confirmDialog' = NoDialog
  /\ UNCHANGED treeVars

NextAdmin ==
  \/ \E userId \in UserRef, newRole \in UserRole : handleRoleChange(userId, newRole)
  \/ confirmRoleChange
  \/ onOpenChange(FALSE)
  \/ \E succeeded \in BOOLEAN : confirmRoleChangeResumes(succeeded)

SpecAdmin == InitAdmin /\ [][NextAdmin]_vars

\* ------------------------------------------------------------------------
\* Vocabulary of the properties
\* ------------------------------------------------------------------------

\* buildTreeLayout has been applied to the inputs (SpecBuild, SpecRich, SpecPlain).
Called == layout # NotCalled

\* The persons placed by a result.  A call that threw returns no node and the
\* render draws nothing.
Placed(l) ==
  IF l.kind = "layout"
    THEN {l.nodes[i].person.id : i \in DOMAIN l.nodes}
    ELSE {}

\* The parent -> child edges of the relationship data, read off the records:
\* p -> c when some child link puts c in a family whose father or mother is p.
ParentChildEdges(d) ==
  {e \in PersonRef \X PersonRef :
     \E i \in DOMAIN d.families, j \in DOMAIN d.children :
       /\ d.children[j].family_id = d.families[i].id
       /\ d.children[j].person_id = e[2]
       /\ e[1] \in {d.families[i].father_id, d.families[i].mother_id}}

Successors(E, X) == {e[2] : e \in {e \in E : e[1] \in X}}
Predecessors(E, X) == {e[1] : e \in {e \in E : e[2] \in X}}

RECURSIVE DownClosure(_, _)
DownClosure(E, X) ==
  LET Y == X \cup Successors(E, X) IN IF Y = X THEN X ELSE DownClosure(E, Y)

RECURSIVE UpClosure(_, _)
UpClosure(E, X) ==
  LET Y == X \cup Predecessors(E, X) IN IF Y = X THEN X ELSE UpClosure(E, Y)

\* The ids reachable from a member of X in one or more parent -> child steps.
ProperDescendants(d, X) ==
  DownClosure(ParentChildEdges(d), Successors(ParentChildEdges(d), X))

\* The ids from which a member of X is reachable in one or more steps.
ProperAncestors(d, X) ==
  UpClosure(ParentChildEdges(d), Predecessors(ParentChildEdges(d), X))

\* No id is its own proper descendant.
Acyclic(d) == \A p \in PersonRef : p \notin ProperDescendants(d, {p})

\* The node a result places for person id.
NodeOfPerson(l, id) ==
  l.nodes[CHOOSE i \in DOMAIN l.nodes : l.nodes[i].person.id = id]

\* The family record with this id.
FamilyOfId(d, fid) ==
  d.families[CHOOSE i \in DOMAIN d.families : d.families[i].id = fid]

\* The father and the mother of a family that a result places.
PlacedParents(l, family) ==
  ({family.father_id, family.mother_id} \ {NoId}) \cap Placed(l)

CentreX(node) == node.x + NODE_WIDTH \div 2

\* The position of person id in data.people.
IndexInPeople(d, id) == CHOOSE i \in DOMAIN d.people : d.people[i].id = id

\* The nodes with their isCollapsed flags cleared.
WithoutCollapsedFlags(nodes) ==
  [k \in DOMAIN nodes |-> [nodes[k] EXCEPT !.isCollapsed = FALSE]]

\* The orders in which a Set with these members can have been filled.
InsertionOrders(S) ==
  {o \in [1..Cardinality(S) -> S] : Range(o) = S}

\* The sequence without its j-th element.
RemoveAt(seq, j) ==
  [i \in 1..(Len(seq) - 1) |-> IF i < j THEN seq[i] ELSE seq[i + 1]]

\* A child link whose family or whose person is not in the data.
DanglingLink(d, link) ==
  \/ \A i \in DOMAIN d.families : d.families[i].id # link.family_id
  \/ link.person_id \notin PeopleIds(d)

\* The child links without the repetitions of a (family_id, person_id) pair:
\* the first link of each pair, in order.
WithoutDuplicates(links) ==
  LET f[i \in 0..Len(links)] ==
        IF i = 0 THEN <<>>
        ELSE IF \E j \in 1..(i - 1) : links[j] = links[i]
          THEN f[i - 1]
          ELSE Append(f[i - 1], links[i])
  IN f[Len(links)]

\* ------------------------------------------------------------------------
\* C1: in view mode 'all' on acyclic data, the placed persons are exactly the
\* people that are not a proper descendant of a member of the collapse set.
\* ------------------------------------------------------------------------
C1_AllModeHidesExactlyDescendants ==
  (Called /\ viewMode = "all" /\ Acyclic(data)) =>
    /\ layout.kind = "layout"
    /\ Placed(layout) = PeopleIds(data) \ ProperDescendants(data, collapsedNodes)

\* A collapsed person hides a grandchild that is no child of any collapsed
\* person, and stays placed itself.
C1_Witness ==
  /\ Called /\ viewMode = "all" /\ Acyclic(data)
  /\ \E c \in collapsedNodes, g \in PeopleIds(data) :
       /\ c \in Placed(layout)
       /\ g \notin Placed(layout)
       /\ g \notin Successors(ParentChildEdges(data), collapsedNodes)

\* ------------------------------------------------------------------------
\* C2: every node a call returns is a person of data.people, and no person
\* has two nodes.
\* ------------------------------------------------------------------------
C2_PlacedAreDistinctPeople ==
  layout.kind = "layout" =>
    /\ \A i \in DOMAIN layout.nodes : layout.nodes[i].person \in Range(data.people)
    /\ \A i, j \in DOMAIN layout.nodes :
         layout.nodes[i].person.id = layout.nodes[j].person.id => i = j

\* The visible set holds an id of no known person (reached through a child
\* link or a parent id), and nodes are placed.
C2_Witness ==
  /\ layout.kind = "layout"
  /\ Len(layout.nodes) > 1
  /\ ~(getVisiblePeopleIds(data, collapsedNodes, viewMode, selectedPerson).visible
         \subseteq PeopleIds(data))
  /\ selectedPerson \in PeopleIds(data)

\* ------------------------------------------------------------------------
\* C3: in view mode 'ancestors' with a known focus, the placed persons are
\* exactly the focus and the people with a parent-edge path to the focus.
\* Stated here for acyclic data, where no traversal overflows the call stack.
\* ------------------------------------------------------------------------
C3_AncestorsClosure ==
  (Called /\ viewMode = "ancestors" /\ selectedPerson \in PeopleIds(data)
          /\ Acyclic(data)) =>
    Placed(layout) =
      PeopleIds(data) \cap ({selectedPerson} \cup ProperAncestors(data, {selectedPerson}))

\* ------------------------------------------------------------------------
\* C4: in view mode 'descendants' with a known focus, the placed persons are
\* exactly the focus and the people reachable from it over parent -> child
\* edges, the children of every union of a parent included.
\* ------------------------------------------------------------------------
C4_DescendantsClosure ==
  (Called /\ viewMode = "descendants" /\ selectedPerson \in PeopleIds(data)) =>
    Placed(layout) =
      PeopleIds(data) \cap ({selectedPerson} \cup ProperDescendants(data, {selectedPerson}))

\* ------------------------------------------------------------------------
\* C5: the visibility computation ends for every input, cyclic relationship
\* data included: no call ends in a call stack overflow.
\* ------------------------------------------------------------------------
C5_VisibilityTerminates == Called => layout.kind = "layout"

\* ------------------------------------------------------------------------
\* C6: with view mode 'ancestors' or 'descendants' and a focus id that is the
\* id of no person, the call returns what view mode 'all' returns for the same
\* data and collapse set.  Stated here for acyclic data, where no traversal
\* overflows the call stack.
\* ------------------------------------------------------------------------
C6_UnknownFocusFallsBackToAll ==
  (Called /\ viewMode # "all" /\ selectedPerson # NoId
          /\ selectedPerson \notin PeopleIds(data) /\ Acyclic(data)) =>
    layout = buildTreeLayout(data, collapsedNodes, "all", selectedPerson)

\* ------------------------------------------------------------------------
\* C7: with view mode 'ancestors' or 'descendants' and no focus (null), the
\* call returns what view mode 'all' returns for the same data and collapse
\* set, the hiding of the descendants of collapsed persons included.  Stated
\* here for acyclic data, where no traversal overflows the call stack.
\* ------------------------------------------------------------------------
C7_NullFocusFallsBackToAll ==
  (Called /\ viewMode # "all" /\ selectedPerson = NoId /\ Acyclic(data)) =>
    layout = buildTreeLayout(data, collapsedNodes, "all", selectedPerson)

\* ------------------------------------------------------------------------
\* C8: in view mode 'all', a larger collapse set never places a person that
\* a smaller one does not place.
\* ------------------------------------------------------------------------
C8_VisibilityMonotone ==
  (Called /\ viewMode = "all") =>
    \A larger \in SUBSET PersonRef :
      collapsedNodes \subseteq larger =>
        Placed(buildTreeLayout(data, larger, "all", selectedPerson))
          \subseteq Placed(layout)

\* A non-empty collapse set that hides someone, and a larger one that hides
\* strictly more while still placing someone.
C8_Witness ==
  /\ Called /\ viewMode = "all"
  /\ collapsedNodes # {}
  /\ Placed(layout) # PeopleIds(data)
  /\ \E larger \in SUBSET PersonRef :
       /\ collapsedNodes \subseteq larger
       /\ Placed(buildTreeLayout(data, larger, "all", selectedPerson)) # {}
       /\ Placed(buildTreeLayout(data, larger, "all", selectedPerson)) # Placed(layout)

\* ------------------------------------------------------------------------
\* C9: a step of handleToggleCollapse(p) changes the membership of p in the
\* collapse set and of no other id, and calling it once more restores the
\* collapse set and with it the set of placed persons.
\* ------------------------------------------------------------------------
C9_ToggleInvolution ==
  [][\A p \in PersonRef :
       handleToggleCollapse(p) =>
         /\ \A q \in PersonRef :
              ((q \in collapsedNodes') # (q \in collapsedNodes)) <=> (q = p)
         /\ toggled(collapsedNodes', p) = collapsedNodes
         /\ Placed(layoutMemo(data', toggled(collapsedNodes', p),
                              viewMode', selectedPerson')) = Placed(layout)]_vars

\* Toggles have collapsed two persons, one of them after the other had hidden
\* people, and the tree is on screen.
C9_Witness ==
  /\ TreeShown
  /\ viewMode = "all"
  /\ Cardinality(collapsedNodes) >= 2
  /\ Placed(layout) # PeopleIds(data)

\* ------------------------------------------------------------------------
\* C10: two distinct nodes of one row are at least NODE_WIDTH + SIBLING_GAP
\* apart, so their extents [x, x + NODE_WIDTH] are disjoint.
\* ------------------------------------------------------------------------
C10_NoOverlapInRow ==
  layout.kind = "layout" =>
    \A i, j \in DOMAIN layout.nodes :
      (i < j /\ layout.nodes[i].y = layout.nodes[j].y) =>
        \/ layout.nodes[i].x + NODE_WIDTH + SIBLING_GAP <= layout.nodes[j].x
        \/ layout.nodes[j].x + NODE_WIDTH + SIBLING_GAP <= layout.nodes[i].x

\* A row of three nodes, or two rows one of which holds two nodes.
C10_Witness ==
  /\ layout.kind = "layout"
  /\ \E i, j \in DOMAIN layout.nodes :
       i # j /\ layout.nodes[i].y = layout.nodes[j].y
  /\ \E i, j \in DOMAIN layout.nodes : layout.nodes[i].y # layout.nodes[j].y

\* ------------------------------------------------------------------------
\* C11: every connection refers to placed nodes only.  A 'couple' connection
\* runs from the centre of the placed father to the centre of the placed
\* mother of its union.  A 'parent-child' connection ends at the top centre of
\* a placed child and starts on the bottom edge of a placed parent of the
\* union, horizontally within the span of the centres of the placed parents.
\* ------------------------------------------------------------------------
C11_ConnectionsReferencePlacedNodes ==
  layout.kind = "layout" =>
    \A k \in DOMAIN layout.connections :
      LET c == layout.connections[k]
          family == FamilyOfId(data, c.id[2])
      IN IF c.type = "couple"
           THEN /\ family.father_id \in Placed(layout)
                /\ family.mother_id \in Placed(layout)
                /\ c.x1 = CentreX(NodeOfPerson(layout, family.father_id))
                /\ c.y1 = NodeOfPerson(layout, family.father_id).y + NODE_HEIGHT \div 2
                /\ c.x2 = CentreX(NodeOfPerson(layout, family.mother_id))
                /\ c.y2 = NodeOfPerson(layout, family.mother_id).y + NODE_HEIGHT \div 2
           ELSE /\ c.id[3] \in Placed(layout)
                /\ c.x2 = CentreX(NodeOfPerson(layout, c.id[3]))
                /\ c.y2 = NodeOfPerson(layout, c.id[3]).y
                /\ \E p \in PlacedParents(layout, family) :
                     c.y1 = NodeOfPerson(layout, p).y + NODE_HEIGHT
                /\ \E p, q \in PlacedParents(layout, family) :
                     /\ CentreX(NodeOfPerson(layout, p)) <= c.x1
                     /\ c.x1 <= CentreX(NodeOfPerson(layout, q))

\* A union whose father and mother are placed in different rows and at
\* different x, with a placed child: a couple connection and a parent-child
\* connection are returned.
C11_Witness ==
  /\ layout.kind = "layout"
  /\ \E k, m \in DOMAIN layout.connections :
       /\ layout.connections[k].type = "couple"
       /\ layout.connections[k].y1 # layout.connections[k].y2
       /\ layout.connections[k].x1 # layout.connections[k].x2
       /\ layout.connections[m].type = "parent-child"

\* ------------------------------------------------------------------------
\* C12: in every view mode, a union whose father id or mother id is in the
\* collapse set has no parent-child connection.  Stated here for acyclic data,
\* a known focus and a collapse set of known people.
\* ------------------------------------------------------------------------
C12_NoChildConnectionOfCollapsedParent ==
  (layout.kind = "layout" /\ selectedPerson \in PeopleIds(data)
     /\ collapsedNodes \subseteq PeopleIds(data) /\ Acyclic(data)) =>
    \A k \in DOMAIN layout.connections :
      layout.connections[k].type = "parent-child" =>
        LET family == FamilyOfId(data, layout.connections[k].id[2])
        IN /\ family.father_id \notin collapsedNodes
           /\ family.mother_id \notin collapsedNodes

\* ------------------------------------------------------------------------
\* C13: a union has at most one 'couple' connection and at most one
\* 'parent-child' connection to any one child, and the result is the result
\* for the same input without its repeated (family_id, person_id) links.
\* Stated here for acyclic data.
\* ------------------------------------------------------------------------
C13_ConnectorsBoundedAndDeduplicated ==
  (layout.kind = "layout" /\ Acyclic(data)) =>
    /\ \A k, m \in DOMAIN layout.connections :
         layout.connections[k].id = layout.connections[m].id => k = m
    /\ layout = buildTreeLayout([data EXCEPT !.children = WithoutDuplicates(@)],
                                collapsedNodes, viewMode, selectedPerson)

\* ------------------------------------------------------------------------
\* C14: a child link that names no family of the data, or no person of the
\* data, changes nothing: the call returns what it returns for the same input
\* without that link.  Stated here for acyclic data, a focus that is null or
\* a known person, and a collapse set of known people.
\* ------------------------------------------------------------------------
C14_DanglingLinkIsDropped ==
  (Called /\ selectedPerson \in PeopleIds(data) \cup {NoId}
          /\ collapsedNodes \subseteq PeopleIds(data) /\ Acyclic(data)) =>
    \A j \in DOMAIN data.children :
      DanglingLink(data, data.children[j]) =>
        layout = buildTreeLayout([data EXCEPT !.children = RemoveAt(@, j)],
                                 collapsedNodes, viewMode, selectedPerson)

\* ------------------------------------------------------------------------
\* C15: on acyclic data with at least one person, every view mode, focus
\* (null, known, unknown) and collapse set places at least one node.
\* ------------------------------------------------------------------------
C15_NonEmptyPeopleNonEmptyNodes ==
  (Called /\ Len(data.people) > 0 /\ Acyclic(data)) =>
    /\ layout.kind = "layout"
    /\ Len(layout.nodes) >= 1

\* ------------------------------------------------------------------------
\* C16: no drawn connection, 'couple' connections included, has a diagonal
\* segment: every segment is horizontal or vertical.  Stated here for acyclic
\* data in which every person has a generation of 1 or more.
\* ------------------------------------------------------------------------
C16_NoDiagonalSegment ==
  (layout.kind = "layout"
     /\ (\A i \in DOMAIN data.people : data.people[i].generation >= 1)
     /\ Acyclic(data)) =>
    \A k \in DOMAIN layout.connections :
      \A seg \in Range(TreeConnection(layout.connections[k])) :
        seg.x1 = seg.x2 \/ seg.y1 = seg.y2

\* ------------------------------------------------------------------------
\* C17: a 'parent-child' connection is drawn as three joined segments: a
\* vertical one from (x1, y1) to the midline, whose y lies halfway between y1
\* and y2, a horizontal one along the midline to x2, and a vertical one to
\* (x2, y2).
\* ------------------------------------------------------------------------
C17_ParentChildPathIsOrthogonal ==
  layout.kind = "layout" =>
    \A k \in DOMAIN layout.connections :
      LET c == layout.connections[k]
          path == TreeConnection(c)
      IN c.type = "parent-child" =>
           /\ Len(path) = 3
           /\ path[1].x1 = c.x1 /\ path[1].y1 = c.y1
           /\ path[1].x2 = path[1].x1
           /\ 2 * (path[1].y2 - c.y1) = c.y2 - c.y1
           /\ path[2].x1 = path[1].x2 /\ path[2].y1 = path[1].y2
           /\ path[2].y2 = path[2].y1
           /\ path[2].x2 = c.x2
           /\ path[3].x1 = path[2].x2 /\ path[3].y1 = path[2].y2
           /\ path[3].x2 = path[3].x1
           /\ path[3].y2 = c.y2

\* A parent-child connection is drawn to a child that stands to the side of
\* the parent anchor and whose top lies above it.
C17_Witness ==
  /\ layout.kind = "layout"
  /\ \E k \in DOMAIN layout.connections :
       /\ layout.connections[k].type = "parent-child"
       /\ layout.connections[k].y2 < layout.connections[k].y1
       /\ layout.connections[k].x2 # layout.connections[k].x1
       /\ Len(TreeConnection(layout.connections[k])) = 3

\* ------------------------------------------------------------------------
\* C18: a second call with the same data, collapse set, view mode and focus
\* returns the same nodes and connections, in whatever order the members of
\* the collapse set were inserted into it.
\* ------------------------------------------------------------------------
C18_Deterministic ==
  Called =>
    /\ buildTreeLayout(data, collapsedNodes, viewMode, selectedPerson) = layout
    /\ viewMode = "all" =>
         \A order \in InsertionOrders(collapsedNodes) :
           layoutOfVisible(data, collapsedNodes,
                           hideCollapsedInOrder(parentToChildren(data), order,
                                                PeopleIds(data))) = layout

\* A call in view 'all' with two or more collapsed ids, two of which hide
\* different people, and with somebody placed.
C18_Witness ==
  /\ Called /\ viewMode = "all"
  /\ Placed(layout) # {}
  /\ \E p, q \in collapsedNodes :
       /\ ProperDescendants(data, {p}) \cap PeopleIds(data) # {}
       /\ ProperDescendants(data, {q}) \cap PeopleIds(data) # {}
       /\ ProperDescendants(data, {p}) # ProperDescendants(data, {q})

\* ------------------------------------------------------------------------
\* C19: the distinct generation values of the placed people, ascending, are
\* the rows 0, 1, 2, ...; a node of row r has y = r * LEVEL_HEIGHT + 20; the
\* i-th (from 0) of the n nodes of a row, in data.people order, has
\* x = -(n * (NODE_WIDTH + SIBLING_GAP) - SIBLING_GAP) / 2
\*     + i * (NODE_WIDTH + SIBLING_GAP).
\* ------------------------------------------------------------------------
C19_RowFormula ==
  layout.kind = "layout" =>
    \A k \in DOMAIN layout.nodes :
      LET node == layout.nodes[k]
          gen == genOf(node.person)
          lowerGens == {genOf(layout.nodes[m].person) : m \in DOMAIN layout.nodes}
                         \cap {g \in GenValues : g < gen}
          rowmates == {m \in DOMAIN layout.nodes : genOf(layout.nodes[m].person) = gen}
          before == {m \in rowmates :
                       IndexInPeople(data, layout.nodes[m].person.id)
                         < IndexInPeople(data, node.person.id)}
          r == Cardinality(lowerGens)
          n == Cardinality(rowmates)
          i == Cardinality(before)
      IN /\ node.y = r * LEVEL_HEIGHT + 20
         /\ 2 * node.x = 2 * i * (NODE_WIDTH + SIBLING_GAP)
                           - (n * (NODE_WIDTH + SIBLING_GAP) - SIBLING_GAP)

\* A row of two nodes at x = -130 and x = 10 above a row of one node of
\* generation 2 at x = -60.
C19_Witness ==
  /\ layout.kind = "layout"
  /\ \E a, b, c \in DOMAIN layout.nodes :
       /\ layout.nodes[a].y = 20 /\ layout.nodes[a].x = -130
       /\ layout.nodes[b].y = 20 /\ layout.nodes[b].x = 10
       /\ layout.nodes[c].y = LEVEL_HEIGHT + 20 /\ layout.nodes[c].x = -60
       /\ genOf(layout.nodes[c].person) = 2

\* ------------------------------------------------------------------------
\* C20: a placed person whose generation is missing or invalid (0 or less)
\* stands in the row of the people of generation 1, and that row is above
\* the row of every higher generation.
\* ------------------------------------------------------------------------
C20_InvalidGenerationInRowOne ==
  layout.kind = "layout" =>
    \A k, m \in DOMAIN layout.nodes :
      /\ (layout.nodes[k].person.generation <= 0
            /\ layout.nodes[m].person.generation <= 1)
           => layout.nodes[k].y = layout.nodes[m].y
      /\ (layout.nodes[k].person.generation <= 1
            /\ layout.nodes[m].person.generation > 1)
           => layout.nodes[k].y < layout.nodes[m].y

\* ------------------------------------------------------------------------
\* C21: a union has exactly one 'couple' connection when its father and its
\* mother are both placed and none otherwise, whatever the collapse set.
\* ------------------------------------------------------------------------
C21_OneCouplePerPlacedPair ==
  layout.kind = "layout" =>
    \A i \in DOMAIN data.families :
      LET family == data.families[i]
          couples == {k \in DOMAIN layout.connections :
                        /\ layout.connections[k].type = "couple"
                        /\ layout.connections[k].id[2] = family.id}
      IN Cardinality(couples) =
           IF /\ family.father_id \in Placed(layout)
              /\ family.mother_id \in Placed(layout)
             THEN 1 ELSE 0

\* A person is a spouse in two unions with two different placed partners and
\* is collapsed: two couple connections are returned.
C21_Witness ==
  /\ layout.kind = "layout"
  /\ \E i, j \in DOMAIN data.families :
       /\ i # j
       /\ data.families[i].father_id = data.families[j].father_id
       /\ data.families[i].father_id \in collapsedNodes
       /\ data.families[i].mother_id # data.families[j].mother_id
       /\ data.families[i].mother_id # data.families[i].father_id
       /\ data.families[j].mother_id # data.families[i].father_id
       /\ Cardinality({k \in DOMAIN layout.connections :
                         layout.connections[k].type = "couple"}) = 2

\* ------------------------------------------------------------------------
\* C22: a parent-child connection of a union starts at the midpoint of the
\* father's and the mother's centres when both are placed, and at the centre
\* of the one placed parent otherwise; a union with no placed parent has no
\* parent-child connection.
\* ------------------------------------------------------------------------
C22_ParentAnchor ==
  layout.kind = "layout" =>
    \A k \in DOMAIN layout.connections :
      LET c == layout.connections[k]
          family == FamilyOfId(data, c.id[2])
          parents == PlacedParents(layout, family)
      IN c.type = "parent-child" =>
           /\ parents # {}
           /\ \A p \in parents :
                \/ /\ parents = {p}
                   /\ c.x1 = CentreX(NodeOfPerson(layout, p))
                \/ \E q \in parents \ {p} :
                     2 * c.x1 = CentreX(NodeOfPerson(layout, p))
                                 + CentreX(NodeOfPerson(layout, q))

\* Two unions of one father, one with a placed mother and one without, each
\* with a parent-child connection: the two anchors differ.
C22_Witness ==
  /\ layout.kind = "layout"
  /\ \E k, m \in DOMAIN layout.connections :
       LET a == layout.connections[k]
           b == layout.connections[m]
       IN /\ a.type = "parent-child" /\ b.type = "parent-child"
          /\ a.id[2] # b.id[2]
          /\ FamilyOfId(data, a.id[2]).father_id = FamilyOfId(data, b.id[2]).father_id
          /\ Cardinality(PlacedParents(layout, FamilyOfId(data, a.id[2]))) = 2
          /\ Cardinality(PlacedParents(layout, FamilyOfId(data, b.id[2]))) = 1
          /\ a.x1 # b.x1
  /\ Acyclic(data)

\* ------------------------------------------------------------------------
\* C23: with no node the bounds are width 100, height 50, offsetX 50; with
\* nodes, offsetX is 50 minus the least of 0 and the nodes' x, and every node
\* shifted by offsetX lies between 0 and width.
\* ------------------------------------------------------------------------
C23_BoundsContainNodes ==
  layout.kind = "layout" =>
    /\ Len(layout.nodes) = 0 =>
         (layout.width = 100 /\ layout.height = 50 /\ layout.offsetX = 50)
    /\ \A x \in {0} \cup {layout.nodes[k].x : k \in DOMAIN layout.nodes} :
         layout.offsetX >= 50 - x
    /\ \E x \in {0} \cup {layout.nodes[k].x : k \in DOMAIN layout.nodes} :
         layout.offsetX = 50 - x
    /\ \A k \in DOMAIN layout.nodes :
         /\ layout.nodes[k].x + layout.offsetX >= 0
         /\ layout.nodes[k].x + NODE_WIDTH + layout.offsetX <= layout.width

\* A row of three nodes, the first at a negative x and the last at a
\* positive x, in a result of width 500.
C23_Witness ==
  /\ layout.kind = "layout"
  /\ layout.width = 500
  /\ \E k, m \in DOMAIN layout.nodes :
       layout.nodes[k].x < 0 /\ layout.nodes[m].x > 0

\* ------------------------------------------------------------------------
\* C24: in view mode 'all', on acyclic data without repeated child links,
\* every child link of a union whose child is placed and one of whose parents
\* is placed has exactly one parent-child connection.
\* ------------------------------------------------------------------------
C24_ChildConnectionsComplete ==
  (Called /\ viewMode = "all"
          /\ WithoutDuplicates(data.children) = data.children
          /\ Acyclic(data)) =>
    /\ layout.kind = "layout"
    /\ \A j \in DOMAIN data.children, i \in DOMAIN data.families :
         (/\ data.families[i].id = data.children[j].family_id
          /\ data.children[j].person_id \in Placed(layout)
          /\ PlacedParents(layout, data.families[i]) # {}) =>
           Cardinality({k \in DOMAIN layout.connections :
                          layout.connections[k].id =
                            <<"child", data.families[i].id,
                              data.children[j].person_id>>}) = 1

\* A union with two placed children and a placed parent, under a collapse
\* set that is not empty.
C24_Witness ==
  /\ Called /\ viewMode = "all"
  /\ WithoutDuplicates(data.children) = data.children
  /\ collapsedNodes # {}
  /\ \E i \in DOMAIN data.families, j1, j2 \in DOMAIN data.children :
       /\ j1 # j2
       /\ data.children[j1].family_id = data.families[i].id
       /\ data.children[j2].family_id = data.families[i].id
       /\ data.children[j1].person_id \in Placed(layout)
       /\ data.children[j2].person_id \in Placed(layout)
       /\ PlacedParents(layout, data.families[i]) # {}
  /\ Acyclic(data)

\* ------------------------------------------------------------------------
\* C25: in view modes 'ancestors' and 'descendants' with a known focus, the
\* nodes returned under any other collapse set are the same persons at the
\* same positions; only their isCollapsed flags differ.
\* ------------------------------------------------------------------------
C25_FocusedViewsIgnoreCollapse ==
  (Called /\ viewMode # "all" /\ selectedPerson \in PeopleIds(data)) =>
    \A other \in SUBSET PersonRef :
      LET result == buildTreeLayout(data, other, viewMode, selectedPerson)
      IN /\ result.kind = layout.kind
         /\ layout.kind = "layout" =>
              WithoutCollapsedFlags(result.nodes) = WithoutCollapsedFlags(layout.nodes)

\* A focused view places a person and a child of that person; in view 'all'
\* collapsing the person would hide the child.
C25_Witness ==
  /\ Called /\ viewMode # "all" /\ selectedPerson \in PeopleIds(data)
  /\ layout.kind = "layout"
  /\ \E p, c \in Placed(layout) :
       /\ p # c
       /\ <<p, c>> \in ParentChildEdges(data)
       /\ c \notin Placed(buildTreeLayout(data, {p}, "all", NoId))
       /\ c \in Placed(buildTreeLayout(data, {p}, viewMode, selectedPerson))

\* ------------------------------------------------------------------------
\* C26: whatever view-mode changes, node selections and collapse toggles
\* happen, a focused view has a focus: viewMode # 'all' implies that a person
\* is selected; and the step that enters a focused view with nobody selected
\* selects data.people[0] itself.
\* ------------------------------------------------------------------------
C26_FocusedViewHasFocus ==
  /\ [](viewMode # "all" => selectedPerson # NoId)
  /\ [][(viewMode' # "all" /\ selectedPerson = NoId) =>
          selectedPerson' = data.people[1].id]_vars

\* A focused view whose focus is the first person of the data, on a tree of
\* several persons, after a collapse toggle.
C26_Witness ==
  /\ viewMode # "all"
  /\ Len(data.people) >= 2
  /\ selectedPerson = data.people[1].id
  /\ collapsedNodes # {}
  /\ TreeShown

\* ------------------------------------------------------------------------
\* C27: on the admin users page a role update is sent only for the userId
\* and newRole of the open confirmation dialog; a dialog is opened only for
\* a newRole that differs from the current role; and an open dialog is
\* closed only by the user's cancel or by the completion of its own update,
\* never by the completion of an update sent from an earlier dialog.
\* ------------------------------------------------------------------------
C27_DialogClosedOnlyByItsOwnUpdate ==
  [][/\ (updateRole' # updateRole /\ updateRole'.isPending) =>
          /\ confirmDialog # NoDialog
          /\ updateRole'.userId = confirmDialog.userId
          /\ updateRole'.role = confirmDialog.newRole
     /\ (confirmDialog' # confirmDialog /\ confirmDialog' # NoDialog) =>
          confirmDialog'.newRole # profiles[confirmDialog'.userId]
     /\ (confirmDialog # NoDialog /\ confirmDialog' = NoDialog) =>
          \/ updateRole' = updateRole
          \/ /\ updateRole.isPending
             /\ updateRole.userId = confirmDialog.userId
             /\ updateRole.role = confirmDialog.newRole]_vars

====
